---- MODULE Spec2Model ----
(***************************************************************************)
(* The rate limiter of internal/server/middleware.go: Limiter.ServeHTTP,   *)
(* its helpers checklimitByKey and limitByKey, and the expiring cache it   *)
(* is built on (github.com/jellydator/ttlcache/v2, configured by           *)
(* NewLimiter with SkipTTLExtensionOnHit(true)).                           *)
(*                                                                         *)
(* Time.  A duration is a whole number of seconds.  The cache keeps, for   *)
(* every item, the instant expireAt = (time of SetWithTTL) + ttl and       *)
(* answers a lookup with time.Until(expireAt).  The model keeps that       *)
(* difference itself: cache[k] is expireAt - now, counted down by Tick,    *)
(* so the clock needs no bound.  No lookup falls exactly on an expiry      *)
(* instant: an item is found while the difference is positive, and an      *)
(* item whose TTL has elapsed is expired; an expired item and a missing    *)
(* one are both NotFound.                                                  *)
(*                                                                         *)
(* Steps.  Every request is served by its own goroutine, a member of       *)
(* Procs.  Each call of the cache that another goroutine can interfere     *)
(* with is a step of its own; the program counter of a goroutine is the    *)
(* source line it executes next.  The lookups of the four slot keys with   *)
(* the decision they feed (lines 62-75) and the slot assignment (lines     *)
(* 81-89) are one step each: they run under the mutex and no code outside  *)
(* the mutex touches a slot key.  Lock is one step with the lookup that    *)
(* follows it (lines 54-56) and Unlock one step with the slot assignment   *)
(* before it (lines 81-91): a mutex operation reads and writes no cache    *)
(* entry, so it commutes with the steps other goroutines take outside the  *)
(* mutex.  The section under the mutex is short next to a second, so the   *)
(* clock does not tick while the mutex is held; it ticks freely while a    *)
(* request waits for the mutex, runs its handler or rolls back.            *)
(***************************************************************************)
EXTENDS Integers, Sequences, FiniteSets, TLC

\* ------------------------------------------------------------- bounds
NumProc == 2       \* goroutines serving requests at the same time
NumAddr == 5       \* at most this many distinct claimed addresses
NumIP == 2         \* at most this many distinct client identifiers
MaxTTL == 2        \* the largest configured TTL, in seconds
Budget == 3        \* the size of a deployment under concurrent requests
SeqBudget == 6     \* the size of a deployment under sequential requests
FairBudget == 1    \* the size of a deployment checked for liveness
MaxHops == 3       \* the largest configured count of reverse proxies
MaxHeader == 4     \* the longest X-Forwarded-For header, in characters
MaxRemote == 3     \* the longest RemoteAddr, in characters

\* ------------------------------------------------- program constants
NumSlots == 4
StatusOK == 200
StatusCreated == 201
StatusBadRequest == 400
StatusTooManyRequests == 429
StatusInternalServerError == 500

Procs     == 1..NumProc
Addresses == 1..NumAddr
IPs       == 1..NumIP
Slots     == 0..(NumSlots - 1)
NoProc    == 0
NoAddr    == 0
NoIP      == 0
NotFound  == 0

\* A deployment: the configured TTL and the population that sends
\* requests, na addresses and ni client identifiers.  The size of a
\* deployment weighs the three against each other, so that a specification
\* covers the largest deployments of one size: many addresses, or two
\* client identifiers, or a TTL of several seconds.
Size(na, ni, t) == (na - 1) + 3 * (ni - 1) + 2 * (t - 1)
Deployments(size) ==
  {d \in [na : 1..NumAddr, ni : 1..NumIP, ttl : 1..MaxTTL] :
     Size(d.na, d.ni, d.ttl) = size}
\* Limiting disabled: a TTL of zero or less.
DisabledDeployments == [na : {1}, ni : {1}, ttl : {-1, 0}]

\* What readAddress returns besides the address: no error, a
\* *malformedRequest carrying its status, or an error of another type.
ReadErrors == {"nil", "malformedRequest", "other"}
MalformedStatuses == {StatusBadRequest}

\* The statuses a downstream handler may report.
HandlerStatuses == {StatusOK, StatusCreated, StatusInternalServerError}

\* ---------------------------------------------------------- cache keys
\* The cache is keyed by strings: the address, the client identifier and
\* the client identifier followed by "-0" .. "-3".
AddrKey(a)    == <<"address", a, 0>>
IPKey(i)      == <<"clintIP", i, 0>>
SlotKey(i, j) == <<"clintIP-", i, j>>
Keys == {AddrKey(a) : a \in Addresses} \cup {IPKey(i) : i \in IPs}
          \cup {SlotKey(i, j) : i \in IPs, j \in Slots}

VARIABLES
  ttl,       \* Limiter.ttl
  proxyCount, \* Limiter.proxyCount
  r,         \* the request getClientIPFromRequest is applied to: its
             \*   X-Forwarded-For header ("" when absent) and RemoteAddr
  nAddr,     \* the deployment: requests carry the addresses 1..nAddr
  nIP,       \* the deployment: requests come from the clients 1..nIP
  mutex,     \* Limiter.mutex: the goroutine holding it, or NoProc
  cache,     \* Limiter.cache: key -> expireAt - now, or NotFound
  pc,        \* per goroutine: the line of ServeHTTP it executes next
  address,   \* per goroutine: local address (line 37)
  clintIP,   \* per goroutine: local clintIP (line 53)
  err,       \* per goroutine: local err (line 37)
  w,         \* per goroutine: the status written to the ResponseWriter
  wait,      \* per goroutine: the wait, in seconds, of the 429 message
  \* History, read by the properties only:
  since,     \* per key: seconds since its last SetWithTTL, up to ttl;
             \*   ttl when it was never set or was removed since
  rec,       \* per goroutine: what is left of the TTL window opened when
             \*   its request recorded its address (line 78)
  gone,      \* per goroutine: a Remove hit its address key since line 78
  \* Addresses are interchangeable, so the history of an address is kept
  \* for one of them, Watched:
  okWin,     \* what is left of the TTL window of a recording of Watched
             \*   whose request's handler reported success
  rolledWin, \* what is left of the TTL window of the recording of Watched
             \*   that line 95 removed last
  rolledBy,  \* during rolledWin: the goroutine that ran that line 95 and
             \*   has not run line 96 yet, else NoProc
  rolledIP,  \* during rolledWin: the client of that request once it ran
             \*   line 96, Spoiled once a request of that client was
             \*   recorded after it
  rerec,     \* during rolledWin: a request recorded Watched again
  \* Clients are interchangeable, so successes are counted for one of
  \* them, and only where a property reads the count:
  audited,   \* the client whose successes are counted, or NoIP
  okAdm      \* okAdm[n]: the requests of audited, up to NumSlots + 1,
             \*   whose handler reported success while n seconds were
             \*   left of the TTL window opened by their admission

conf == <<ttl, nAddr, nIP, proxyCount, r, audited>>
hist == <<since, rec, gone, okWin, rolledWin, rolledBy, rolledIP, rerec, okAdm>>
vars == <<ttl, nAddr, nIP, proxyCount, r, audited, mutex, cache, pc, address, clintIP, err, w, wait,
          since, rec, gone, okWin, rolledWin, rolledBy, rolledIP, rerec, okAdm>>

\* ------------------------------------------------------- the ttl cache
\* A cache left with the library's default: a hit extends the TTL.
ExtensionOnHit == FALSE

\* NewLimiter, line 28: cache.SkipTTLExtensionOnHit(true).
SkipTTLExtensionOnHit == TRUE

\* getItem: the item exists and is not expired.
Found(c, k) == c[k] # NotFound

\* Cache.GetWithTTL, the ttl it returns: time.Until(expireAt) when hits do
\* not extend the TTL, the item's full ttl when they do.
GetWithTTL(c, k) == IF SkipTTLExtensionOnHit THEN c[k] ELSE ttl

\* Cache.GetWithTTL, its effect on the cache: a hit touches the item
\* (expireAt = now + ttl) unless hits are told not to extend the TTL.
Touched(c, k) ==
  IF Found(c, k) /\ ~SkipTTLExtensionOnHit THEN [c EXCEPT ![k] = ttl] ELSE c

\* Cache.SetWithTTL(key, true, l.ttl): expireAt = now + ttl.
SetWithTTL(c, k) == [c EXCEPT ![k] = ttl]

\* A Remove that removes nothing, and one that purges the cache.
RemoveNothing(c, k) == c
Purge(c, k) == [x \in Keys |-> NotFound]

\* Cache.Remove(key).
Remove(c, k) == [c EXCEPT ![k] = NotFound]

\* ---------------------------------------------------------- the helpers
\* checklimitByKey: the remaining TTL of the key, 0 when it is not found.
checklimitByKey(c, k) == IF Found(c, k) THEN GetWithTTL(c, k) ELSE 0

\* limitByKey: the key is found (its 429 is rendered by LimitByAddress).
limitByKey(c, k) == Found(c, k)

\* max where line 62 says min.
Max4(f) == CHOOSE m \in {f[j] : j \in Slots} : \A j \in Slots : m >= f[j]

\* The builtin min of line 62, over the four lookups.
Min4(f) == CHOOSE m \in {f[j] : j \in Slots} : \A j \in Slots : m <= f[j]

\* The cache after the lookups of slots 0 .. n-1 of client i, in order.
RECURSIVE AfterSlotLookups(_, _, _)
AfterSlotLookups(c, i, n) ==
  IF n = 0 THEN c ELSE Touched(AfterSlotLookups(c, i, n - 1), SlotKey(i, n - 1))

\* ttl := min(checklimitByKey(-0), ..., checklimitByKey(-3)), lines 62-67.
SlotMin(c, i) ==
  Min4([j \in Slots |-> checklimitByKey(AfterSlotLookups(c, i, j), SlotKey(i, j))])

\* The last free slot where the chain of lines 81-89 takes the first.
LastFree(c, i) ==
  CHOOSE j \in {h \in Slots : c[SlotKey(i, h)] <= 0} :
    \A h \in Slots : c[SlotKey(i, h)] <= 0 => h <= j
\* Slot 0 whatever its state.
SlotZero(c, i) == 0

\* The slots whose lookup in the chain of lines 81-89 says <= 0.
FreeSlots(c, i) == {j \in Slots : checklimitByKey(c, SlotKey(i, j)) <= 0}
FirstFree(c, i) == CHOOSE j \in FreeSlots(c, i) : \A h \in FreeSlots(c, i) : j <= h

\* Lines 81-89: record the first slot whose lookup says <= 0, if any.
RecordSlot(c, i) ==
  IF FreeSlots(c, i) = {}
    THEN AfterSlotLookups(c, i, NumSlots)
    ELSE SetWithTTL(AfterSlotLookups(c, i, FirstFree(c, i)),
                    SlotKey(i, FirstFree(c, i)))

\* ------------------------------------------ getClientIPFromRequest
\* A string is the sequence of its characters.  Headers are written with
\* a digit, the space and the comma, remote addresses with a letter and
\* the colon (no bracketed IPv6 literal).
Comma == ","
Space == " "
Colon == ":"
HeaderChars == {"1", Space, Comma}
RemoteChars == {"h", Colon}
StringsUpTo(chars, n) == UNION {[1..k -> chars] : k \in 0..n}
Requests == [xff : StringsUpTo(HeaderChars, MaxHeader),
             remoteAddr : StringsUpTo(RemoteChars, MaxRemote)]
NoRequest == [xff |-> <<>>, remoteAddr |-> <<>>]

\* What the Go runtime does with an index out of range.
Panic == <<"panic: index out of range">>

\* strings.Split(s, sep), sep one character.
RECURSIVE Split(_, _)
Split(s, sep) ==
  IF \E i \in 1..Len(s) : s[i] = sep
    THEN LET i == CHOOSE i \in 1..Len(s) :
                    s[i] = sep /\ \A j \in 1..(i - 1) : s[j] # sep
         IN  <<SubSeq(s, 1, i - 1)>> \o Split(SubSeq(s, i + 1, Len(s)), sep)
    ELSE <<s>>

\* strings.TrimSpace(s).
RECURSIVE TrimLeft(_)
TrimLeft(s) == IF s # <<>> /\ Head(s) = Space THEN TrimLeft(Tail(s)) ELSE s
RECURSIVE TrimRight(_)
TrimRight(s) ==
  IF s # <<>> /\ s[Len(s)] = Space THEN TrimRight(SubSeq(s, 1, Len(s) - 1)) ELSE s
TrimSpace(s) == TrimRight(TrimLeft(s))

\* xForwardedForParts[i], indices counted from 0.
Index(parts, i) == IF i \in 0..(Len(parts) - 1) THEN parts[i + 1] ELSE Panic

\* Line 127 without the clamp of lines 128-130.
PartIndexUnclamped(n, h) == n - h

\* Lines 127-130: partIndex := len(parts) - proxyCount, at least 0.
PartIndex(n, h) == IF n - h < 0 THEN 0 ELSE n - h

\* net.SplitHostPort(hostport), for an address without brackets: the host
\* before the last colon; an error when there is no colon ("missing
\* port") or the host holds another one ("too many colons").
SplitHostPort(a) ==
  LET colons == {i \in 1..Len(a) : a[i] = Colon}
  IN  IF colons = {} THEN [host |-> <<>>, err |-> TRUE]
      ELSE LET i == CHOOSE i \in colons : \A j \in colons : j <= i
               host == SubSeq(a, 1, i - 1)
           IN  IF \E j \in 1..Len(host) : host[j] = Colon
                 THEN [host |-> <<>>, err |-> TRUE]
                 ELSE [host |-> host, err |-> FALSE]

\* Lines 121-140.
getClientIPFromRequest(h, req) ==
  IF h > 0 /\ req.xff # <<>>
    THEN LET xForwardedForParts == Split(req.xff, Comma)
         IN  TrimSpace(Index(xForwardedForParts,
                             PartIndex(Len(xForwardedForParts), h)))
    ELSE LET hp == SplitHostPort(req.remoteAddr)
         IN  IF hp.err THEN req.remoteAddr ELSE hp.host

\* ------------------------------------------------------------- Init
NoError == [type |-> "nil", status |-> 0]
Spoiled == NoIP - 1
Watched == CHOOSE a \in Addresses : \A b \in Addresses : a <= b

\* The goroutines that have recorded their address (line 78) and not
\* yet returned.
RecordedPcs == {"l79", "l81", "l93", "l95", "l96"}
\* The goroutines inside the section the mutex protects.
LockedPcs == {"l57", "l61", "l62", "l73", "l78", "l79", "l81"}

Dec(n) == IF n > 0 THEN n - 1 ELSE 0

\* NewLimiter: an empty cache, an unlocked mutex, the configured ttl; no
\* request is being served. The successes of client aud are counted.
InitWith(deployments, aud) ==
  /\ \E d \in deployments : ttl = d.ttl /\ nAddr = d.na /\ nIP = d.ni
  /\ audited = aud
  /\ okAdm = [n \in 1..MaxTTL |-> 0]
  /\ proxyCount = 0
  /\ r = NoRequest
  /\ mutex = NoProc
  /\ cache = [k \in Keys |-> NotFound]
  /\ pc = [p \in Procs |-> "idle"]
  /\ address = [p \in Procs |-> NoAddr]
  /\ clintIP = [p \in Procs |-> NoIP]
  /\ err = [p \in Procs |-> NoError]
  /\ w = [p \in Procs |-> 0]
  /\ wait = [p \in Procs |-> 0]
  /\ since = [k \in Keys |-> IF ttl > 0 THEN ttl ELSE 0]
  /\ rec = [p \in Procs |-> 0]
  /\ gone = [p \in Procs |-> FALSE]
  /\ okWin = 0
  /\ rolledWin = 0
  /\ rolledBy = NoProc
  /\ rolledIP = NoIP
  /\ rerec = FALSE

InitOf(deployments) == InitWith(deployments, NoIP)

Init == InitOf(Deployments(Budget) \cup DisabledDeployments)

\* ServeHTTP returns: the goroutine is free to serve the next request.
Returned(p) ==
  /\ pc' = [pc EXCEPT ![p] = "idle"]
  /\ address' = [address EXCEPT ![p] = NoAddr]
  /\ clintIP' = [clintIP EXCEPT ![p] = NoIP]
  /\ err' = [err EXCEPT ![p] = NoError]
  /\ w' = [w EXCEPT ![p] = 0]
  /\ wait' = [wait EXCEPT ![p] = 0]
  /\ rec' = [rec EXCEPT ![p] = 0]
  /\ gone' = [gone EXCEPT ![p] = FALSE]

\* Free goroutines are interchangeable: a new request is served by the
\* free one with the least number.
Free(p) == pc[p] = "idle" /\ \A q \in Procs : q < p => pc[q] # "idle"

\* Every error of readAddress rendered as a 500.
ErrorStatusAlways500(e) == StatusInternalServerError

\* Lines 39-44: the status rendered for an error of readAddress.
ErrorStatus(e) ==
  IF e.type = "malformedRequest" THEN e.status ELSE StatusInternalServerError

\* ------------------------------------------------------------ actions
\* Lines 37-44: readAddress fails; the error's status is rendered.
Malformed(p) ==
  /\ Free(p)
  /\ \E e \in ([type : {"malformedRequest"}, status : MalformedStatuses]
                 \cup [type : {"other"}, status : {0}]) :
       /\ err' = [err EXCEPT ![p] = e]
       /\ w' = [w EXCEPT ![p] = ErrorStatus(e)]
  /\ pc' = [pc EXCEPT ![p] = "l45"]
  /\ UNCHANGED <<conf, mutex, cache, address, clintIP, wait, hist>>

\* l.ttl < 0 where line 48 says l.ttl <= 0.
LimitingDisabledBelowZero == ttl < 0

\* Line 48: rate limiting is disabled.
LimitingDisabled == ttl <= 0

\* Lines 37-53: readAddress succeeds; with limiting disabled the handler
\* is next, otherwise the client identifier is resolved and the mutex is
\* next.
Arrive(p) ==
  /\ Free(p)
  /\ \E a \in 1..nAddr, i \in 1..nIP :
       /\ address' = [address EXCEPT ![p] = a]
       /\ IF LimitingDisabled
            THEN /\ pc' = [pc EXCEPT ![p] = "l49"]
                 /\ UNCHANGED clintIP
            ELSE /\ pc' = [pc EXCEPT ![p] = "l54"]
                 /\ clintIP' = [clintIP EXCEPT ![p] = i]
  /\ UNCHANGED <<conf, mutex, cache, err, w, wait, hist>>

\* Line 49: limiting is disabled; the handler runs and writes its status.
Disabled(p) ==
  /\ pc[p] = "l49"
  /\ \E s \in HandlerStatuses : w' = [w EXCEPT ![p] = s]
  /\ pc' = [pc EXCEPT ![p] = "l50"]
  /\ UNCHANGED <<conf, mutex, cache, address, clintIP, err, wait, hist>>

\* Lines 45 and 50: return.
Return(p) ==
  /\ pc[p] \in {"l45", "l50"}
  /\ Returned(p)
  /\ UNCHANGED <<conf, mutex, cache, since, okWin, okAdm,
                 rolledWin, rolledBy, rolledIP, rerec>>

\* A Lock that does not wait for the mutex, an Unlock that keeps it.
LockWithoutWaiting(p) == mutex' = p
UnlockForgotten(p) == mutex' = mutex

\* l.mutex.Lock() returns to goroutine p (line 54): no goroutine holds
\* the mutex, and p holds it from now on.
Lock(p) == mutex = NoProc /\ mutex' = p

\* l.mutex.Unlock() by goroutine p (lines 57, 73 and 91).
Unlock(p) == mutex' = IF mutex = p THEN NoProc ELSE mutex

\* Lines 54-56: the mutex is taken and limitByKey(address) looks the
\* address up: a found address is answered with 429 and its remaining TTL.
LimitByAddress(p) ==
  /\ pc[p] = "l54"
  /\ Lock(p)
  /\ IF limitByKey(cache, AddrKey(address[p]))
       THEN /\ w' = [w EXCEPT ![p] = StatusTooManyRequests]
            /\ wait' = [wait EXCEPT ![p] = GetWithTTL(cache, AddrKey(address[p]))]
            /\ pc' = [pc EXCEPT ![p] = "l57"]
       ELSE /\ pc' = [pc EXCEPT ![p] = "l61"]
            /\ UNCHANGED <<w, wait>>
  /\ cache' = Touched(cache, AddrKey(address[p]))
  /\ UNCHANGED <<conf, address, clintIP, err, hist>>

\* Line 61: checklimitByKey(clintIP) > 0.
CheckIP(p) ==
  /\ pc[p] = "l61"
  /\ pc' = [pc EXCEPT ![p] =
              IF checklimitByKey(cache, IPKey(clintIP[p])) > 0 THEN "l62" ELSE "l78"]
  /\ cache' = Touched(cache, IPKey(clintIP[p]))
  /\ UNCHANGED <<conf, mutex, address, clintIP, err, w, wait, hist>>

\* Lines 62-72: ttl := min of the four slot lookups; ttl > 0 is answered
\* with 429 and that ttl.
LimitByIP(p) ==
  /\ pc[p] = "l62"
  /\ IF SlotMin(cache, clintIP[p]) > 0
       THEN /\ w' = [w EXCEPT ![p] = StatusTooManyRequests]
            /\ wait' = [wait EXCEPT ![p] = SlotMin(cache, clintIP[p])]
            /\ pc' = [pc EXCEPT ![p] = "l73"]
       ELSE /\ pc' = [pc EXCEPT ![p] = "l78"]
            /\ UNCHANGED <<w, wait>>
  /\ cache' = AfterSlotLookups(cache, clintIP[p], NumSlots)
  /\ UNCHANGED <<conf, mutex, address, clintIP, err, hist>>

\* Lines 57-58 and 73-74: l.mutex.Unlock(); return.
UnlockDenied(p) ==
  /\ pc[p] \in {"l57", "l73"}
  /\ Unlock(p)
  /\ Returned(p)
  /\ UNCHANGED <<conf, cache, since, okWin, okAdm,
                 rolledWin, rolledBy, rolledIP, rerec>>

\* Line 78: l.cache.SetWithTTL(address, true, l.ttl).
SetAddress(p) ==
  /\ pc[p] = "l78"
  /\ cache' = SetWithTTL(cache, AddrKey(address[p]))
  /\ pc' = [pc EXCEPT ![p] = "l79"]
  /\ since' = [since EXCEPT ![AddrKey(address[p])] = 0]
  /\ rec' = [rec EXCEPT ![p] = ttl]
  /\ gone' = [gone EXCEPT ![p] = FALSE]
  /\ rerec' = (rerec \/ (address[p] = Watched /\ rolledWin > 0))
  /\ UNCHANGED <<conf, mutex, address, clintIP, err, w, wait,
                 okWin, okAdm, rolledWin, rolledBy, rolledIP>>

\* Line 79 left out: the plain client key is never recorded.
SetIPLeftOut(p) ==
  /\ pc[p] = "l79"
  /\ pc' = [pc EXCEPT ![p] = "l81"]
  /\ UNCHANGED <<conf, mutex, cache, address, clintIP, err, w, wait, hist>>

\* Line 79: l.cache.SetWithTTL(clintIP, true, l.ttl).
SetIP(p) ==
  /\ pc[p] = "l79"
  /\ cache' = SetWithTTL(cache, IPKey(clintIP[p]))
  /\ pc' = [pc EXCEPT ![p] = "l81"]
  /\ since' = [since EXCEPT ![IPKey(clintIP[p])] = 0]
  /\ rolledIP' = IF rolledIP = clintIP[p] THEN Spoiled ELSE rolledIP
  /\ UNCHANGED <<conf, mutex, address, clintIP, err, w, wait,
                 rec, gone, okWin, okAdm, rolledWin, rolledBy, rerec>>

\* Lines 81-91: the first slot whose remaining TTL is <= 0 is recorded;
\* l.mutex.Unlock().
SetSlot(p) ==
  /\ pc[p] = "l81"
  /\ cache' = RecordSlot(cache, clintIP[p])
  /\ since' = IF FreeSlots(cache, clintIP[p]) = {} THEN since
              ELSE [since EXCEPT ![SlotKey(clintIP[p], FirstFree(cache, clintIP[p]))] = 0]
  /\ Unlock(p)
  /\ pc' = [pc EXCEPT ![p] = "l93"]
  /\ UNCHANGED <<conf, address, clintIP, err, w, wait,
                 rec, gone, okWin, okAdm, rolledWin, rolledBy, rolledIP, rerec>>

\* Lines 93-94 and 99-103: next.ServeHTTP(w, r) returns, having written a
\* status; a status other than 200 leads to the rollback, with 200 the
\* request is logged and ServeHTTP returns.
Handler(p) ==
  /\ pc[p] = "l93"
  /\ \E s \in HandlerStatuses :
       IF s # StatusOK
         THEN /\ w' = [w EXCEPT ![p] = s]
              /\ pc' = [pc EXCEPT ![p] = "l95"]
              /\ UNCHANGED <<address, clintIP, err, wait, rec, gone, okWin, okAdm>>
         ELSE /\ okWin' = IF address[p] = Watched /\ rec[p] > okWin
                            THEN rec[p] ELSE okWin
              /\ okAdm' = IF clintIP[p] = audited /\ rec[p] > 0
                            THEN [okAdm EXCEPT ![rec[p]] =
                                    IF @ > NumSlots THEN @ ELSE @ + 1]
                            ELSE okAdm
              /\ Returned(p)
  /\ UNCHANGED <<conf, mutex, cache, since,
                 rolledWin, rolledBy, rolledIP, rerec>>

\* Line 95: l.cache.Remove(address).
RemoveAddress(p) ==
  /\ pc[p] = "l95"
  /\ cache' = Remove(cache, AddrKey(address[p]))
  /\ pc' = [pc EXCEPT ![p] = "l96"]
  /\ since' = [since EXCEPT ![AddrKey(address[p])] = ttl]
  /\ gone' = [q \in Procs |->
                IF address[q] = address[p] /\ pc[q] \in RecordedPcs
                  THEN TRUE ELSE gone[q]]
  /\ IF address[p] = Watched /\ rec[p] > 0
       THEN /\ rolledWin' = rec[p]
            /\ rolledBy' = p
            /\ rolledIP' = NoIP
            /\ rerec' = FALSE
       ELSE UNCHANGED <<rolledWin, rolledBy, rolledIP, rerec>>
  /\ UNCHANGED <<conf, mutex, address, clintIP, err, w, wait, rec, okWin, okAdm>>

\* Lines 96-97: l.cache.Remove(clintIP); return.
RemoveIP(p) ==
  /\ pc[p] = "l96"
  /\ cache' = Remove(cache, IPKey(clintIP[p]))
  /\ since' = [since EXCEPT ![IPKey(clintIP[p])] = ttl]
  /\ IF rolledBy = p
       THEN rolledBy' = NoProc /\ rolledIP' = clintIP[p]
       ELSE UNCHANGED <<rolledBy, rolledIP>>
  /\ Returned(p)
  /\ UNCHANGED <<conf, mutex, okWin, okAdm, rolledWin, rerec>>

\* One second passes: every expireAt - now shrinks by one, and an item
\* whose TTL has elapsed is expired.
Tick ==
  /\ mutex = NoProc
  /\ cache' = [k \in Keys |-> IF cache[k] = NotFound THEN NotFound ELSE cache[k] - 1]
  /\ since' = [k \in Keys |-> IF since[k] < ttl THEN since[k] + 1 ELSE since[k]]
  /\ rec' = [p \in Procs |-> Dec(rec[p])]
  /\ okWin' = Dec(okWin)
  /\ okAdm' = [n \in 1..MaxTTL |-> IF n < MaxTTL THEN okAdm[n + 1] ELSE 0]
  /\ rolledWin' = Dec(rolledWin)
  /\ rolledBy' = IF rolledWin > 1 THEN rolledBy ELSE NoProc
  /\ rolledIP' = IF rolledWin > 1 THEN rolledIP ELSE NoIP
  /\ rerec' = (rerec /\ rolledWin > 1)
  /\ UNCHANGED <<conf, mutex, pc, address, clintIP, err, w, wait, gone>>

Step(p) ==
  \/ Malformed(p) \/ Arrive(p) \/ Disabled(p) \/ Return(p)
  \/ LimitByAddress(p) \/ CheckIP(p) \/ LimitByIP(p)
  \/ UnlockDenied(p) \/ SetAddress(p) \/ SetIP(p) \/ SetSlot(p)
  \/ Handler(p)
  \/ RemoveAddress(p) \/ RemoveIP(p)

Next == (\E p \in Procs : Step(p)) \/ Tick

Spec == Init /\ [][Next]_vars

\* ----------------------------------------- requests one after another
\* The limiter serving one request at a time, every handler reporting
\* 200: a request arrives when no other is being served.
AllIdle == \A q \in Procs : pc[q] = "idle"

Succeed(p) == Handler(p) /\ pc'[p] = "idle"

SeqInit == InitOf(Deployments(SeqBudget))

SeqStep(p) ==
  \/ (AllIdle /\ Malformed(p)) \/ (AllIdle /\ Arrive(p)) \/ Return(p)
  \/ LimitByAddress(p) \/ CheckIP(p) \/ LimitByIP(p)
  \/ UnlockDenied(p) \/ SetAddress(p) \/ SetIP(p) \/ SetSlot(p)
  \/ Succeed(p)

SeqNext == (\E p \in Procs : SeqStep(p)) \/ Tick

SeqSpec == SeqInit /\ [][SeqNext]_vars

\* ------------------------------------------------ a fair scheduler
\* The Go scheduler runs every runnable goroutine, so a goroutine inside
\* lines 56-91 keeps stepping (weak fairness); sync.Mutex hands the mutex
\* to a goroutine that has waited in Lock (its starvation mode), so a
\* waiting goroutine that could take the mutex again and again does take
\* it (strong fairness).  Nothing is assumed of the handlers, of the
\* arrivals, of the rollbacks or of the clock.
FairInit == InitOf(Deployments(FairBudget) \cup DisabledDeployments)

Fairness ==
  \A p \in Procs :
    /\ SF_vars(LimitByAddress(p))
    /\ WF_vars(CheckIP(p)) /\ WF_vars(LimitByIP(p)) /\ WF_vars(UnlockDenied(p))
    /\ WF_vars(SetAddress(p)) /\ WF_vars(SetIP(p)) /\ WF_vars(SetSlot(p))

FairSpec == FairInit /\ [][Next]_vars /\ Fairness

\* ------------------------------------------ one client audited
\* The successes of the least client are counted, in the deployments
\* that have an address for each of its slots and in the disabled ones.
Audited == CHOOSE i \in IPs : \A h \in IPs : i <= h

AuditInit ==
  InitWith({d \in Deployments(Budget) : d.na >= NumSlots}
             \cup DisabledDeployments, Audited)

AuditSpec == AuditInit /\ [][Next]_vars

\* The successes of audited whose admissions lie within the last TTL.
RECURSIVE SumTo(_, _)
SumTo(f, n) == IF n = 0 THEN 0 ELSE f[n] + SumTo(f, n - 1)
Successes == SumTo(okAdm, MaxTTL)

\* -------------------------------------- the resolver on its own
\* getClientIPFromRequest applied to every request up to the bounds,
\* under every count of reverse proxies: line 53 of a request served by
\* an idle limiter.
ResolveInit ==
  /\ ttl = 1 /\ nAddr = 1 /\ nIP = 1
  /\ proxyCount \in 0..MaxHops
  /\ r \in Requests
  /\ audited = NoIP
  /\ okAdm = [n \in 1..MaxTTL |-> 0]
  /\ mutex = NoProc
  /\ cache = [k \in Keys |-> NotFound]
  /\ pc = [p \in Procs |-> "idle"]
  /\ address = [p \in Procs |-> NoAddr]
  /\ clintIP = [p \in Procs |-> NoIP]
  /\ err = [p \in Procs |-> NoError]
  /\ w = [p \in Procs |-> 0]
  /\ wait = [p \in Procs |-> 0]
  /\ since = [k \in Keys |-> ttl]
  /\ rec = [p \in Procs |-> 0]
  /\ gone = [p \in Procs |-> FALSE]
  /\ okWin = 0
  /\ rolledWin = 0
  /\ rolledBy = NoProc
  /\ rolledIP = NoIP
  /\ rerec = FALSE

\* Lines 37 and 53: clintIP := getClientIPFromRequest(l.proxyCount, r).
Resolve(p) ==
  /\ AllIdle /\ Free(p)
  /\ address' = [address EXCEPT ![p] = Watched]
  /\ clintIP' = [clintIP EXCEPT ![p] = getClientIPFromRequest(proxyCount, r)]
  /\ pc' = [pc EXCEPT ![p] = "l54"]
  /\ UNCHANGED <<conf, mutex, cache, err, w, wait, hist>>

ResolveNext == \E p \in Procs : Resolve(p)

ResolveSpec == ResolveInit /\ [][ResolveNext]_vars

\* ============================================================ properties
\* Every slot key of client i has a live entry.
AllSlotsLive(c, i) == \A j \in Slots : Found(c, SlotKey(i, j))
\* No key of client i has a live entry.
NoEntryLive(c, i) ==
  ~Found(c, IPKey(i)) /\ \A j \in Slots : ~Found(c, SlotKey(i, j))
\* Goroutine q leaves line n in this step.
Leaves(q, n) == pc[q] = n /\ pc'[q] # n

\* C1 (as claimed): a request carrying an address whose check (lines
\* 54-56) comes while the TTL window of a recording of that address whose
\* handler reported 200 is still open is denied on the address path.
C1_DeniedAfterSuccess ==
  [][\A q \in Procs :
       (Leaves(q, "l54") /\ address[q] = Watched /\ okWin > 0)
         => pc'[q] = "l57"]_vars

\* C2 (as claimed), requests served one after another and succeeding:
\* a request whose client has all four slots live is denied on the IP
\* path, and a request with a fresh address whose client has no live
\* entry is admitted.
C2_FifthDeniedOnIPPath ==
  [][\A q \in Procs :
       /\ (Leaves(q, "l54") /\ AllSlotsLive(cache, clintIP[q]))
            => pc'[q] = "l61"
       /\ (Leaves(q, "l61") /\ AllSlotsLive(cache, clintIP[q]))
            => pc'[q] = "l62"
       /\ (Leaves(q, "l62") /\ AllSlotsLive(cache, clintIP[q]))
            => pc'[q] = "l73"
       /\ (Leaves(q, "l54") /\ NoEntryLive(cache, clintIP[q])
             /\ ~Found(cache, AddrKey(address[q])))
            => pc'[q] = "l61"
       /\ (Leaves(q, "l61") /\ NoEntryLive(cache, clintIP[q]))
            => pc'[q] = "l78"]_vars

\* C2 (amended), requests served one after another and succeeding: a
\* request whose client has all four slots live is denied, on the address
\* path when its address has a live entry and on the IP path otherwise;
\* a request with a fresh address whose client has no live entry is
\* admitted.
C2_FifthDenied ==
  [][\A q \in Procs :
       /\ (Leaves(q, "l54") /\ AllSlotsLive(cache, clintIP[q]))
            => pc'[q] = IF Found(cache, AddrKey(address[q])) THEN "l57" ELSE "l61"
       /\ (Leaves(q, "l61") /\ AllSlotsLive(cache, clintIP[q]))
            => pc'[q] = "l62"
       /\ (Leaves(q, "l62") /\ AllSlotsLive(cache, clintIP[q]))
            => pc'[q] = "l73"
       /\ (Leaves(q, "l54") /\ NoEntryLive(cache, clintIP[q])
             /\ ~Found(cache, AddrKey(address[q])))
            => pc'[q] = "l61"
       /\ (Leaves(q, "l61") /\ NoEntryLive(cache, clintIP[q]))
            => pc'[q] = "l78"]_vars

\* C2: a request with a fresh address is denied on the IP path, all four
\* slots of its client being live.
C2_Witness ==
  \E q \in Procs :
    /\ pc[q] = "l73"
    /\ AllSlotsLive(cache, clintIP[q])
    /\ ~Found(cache, AddrKey(address[q]))

\* C3 (as claimed): when a request is denied on IP grounds (line 69), the
\* plain key and the four slot keys of its client have live entries.
C3_DeniedWithAllKeysLive ==
  [][\A p \in Procs :
       (pc[p] = "l62" /\ pc'[p] = "l73")
         => /\ Found(cache, IPKey(clintIP[p]))
            /\ AllSlotsLive(cache, clintIP[p])]_vars

\* C3 (amended): when a request is denied on IP grounds, the four slot
\* keys of its client have live entries, each recorded less than a TTL
\* ago, and the plain key had such an entry when line 61 looked it up
\* under the same hold of the mutex.
C3_DeniedWithSlotsLive ==
  [][\A p \in Procs :
       /\ (pc[p] # "l73" /\ pc'[p] = "l73") => pc[p] = "l62"
       /\ (pc[p] = "l62" /\ pc'[p] = "l73")
            => /\ AllSlotsLive(cache, clintIP[p])
               /\ \A j \in Slots : since[SlotKey(clintIP[p], j)] < ttl
       /\ (pc[p] # "l62" /\ pc'[p] = "l62")
            => /\ pc[p] = "l61" /\ mutex = p /\ mutex' = p
               /\ Found(cache, IPKey(clintIP[p]))
               /\ since[IPKey(clintIP[p])] < ttl]_vars

\* C3: a request has been denied on IP grounds.
C3_Witness ==
  \E p \in Procs :
    /\ pc[p] = "l73" /\ w[p] = StatusTooManyRequests
    /\ AllSlotsLive(cache, clintIP[p])

\* C4: at most one goroutine is inside lines 56-91, the one holding the
\* mutex; while a goroutine is between its address check and line 78 its
\* address has no entry; and no two requests being served have both
\* recorded the same address unless the earlier entry expired or was
\* removed.
C4_AtomicAdmission ==
  /\ \A p \in Procs : pc[p] \in LockedPcs <=> mutex = p
  /\ Cardinality({p \in Procs : pc[p] \in LockedPcs}) <= 1
  /\ \A p \in Procs :
       pc[p] \in {"l61", "l62", "l78"} => ~Found(cache, AddrKey(address[p]))
  /\ \A p, q \in Procs :
       (/\ p # q /\ address[p] = address[q]
        /\ pc[p] \in RecordedPcs /\ pc[q] \in RecordedPcs
        /\ rec[p] > 0 /\ ~gone[p])
         => (rec[q] = 0 \/ gone[q])

\* C4: of two requests carrying the same address, one was admitted and
\* its entry is live, the other is denied on the address path.
C4_Witness ==
  \E p, q \in Procs :
    /\ p # q /\ address[p] = address[q]
    /\ pc[p] = "l93" /\ rec[p] > 0 /\ ~gone[p]
    /\ pc[q] = "l57"

\* C5 (as claimed): once the rollback of a recording of an address has
\* run, a request with that address checked within the TTL window of the
\* recording is not denied on the address path, and it is admitted when
\* it comes from the client of the rolled back request and no request of
\* that client was recorded in between.
C5_AdmittedAfterRollback ==
  [][\A q \in Procs :
       /\ (Leaves(q, "l54") /\ address[q] = Watched
             /\ rolledWin > 0 /\ rolledIP # NoIP)
            => pc'[q] # "l57"
       /\ (Leaves(q, "l61") /\ address[q] = Watched
             /\ rolledWin > 0 /\ rolledIP = clintIP[q])
            => pc'[q] = "l78"]_vars

\* C5 (amended): the same, provided no request recorded the address
\* again since the rollback removed it.
C5_AdmittedAfterRollbackUnlessRecorded ==
  [][\A q \in Procs :
       /\ (Leaves(q, "l54") /\ address[q] = Watched
             /\ rolledWin > 0 /\ rolledIP # NoIP /\ ~rerec)
            => pc'[q] # "l57"
       /\ (Leaves(q, "l61") /\ address[q] = Watched
             /\ rolledWin > 0 /\ rolledIP = clintIP[q] /\ ~rerec)
            => pc'[q] = "l78"]_vars

\* C5: a request with the rolled back address, from the client of the
\* rolled back request, is admitted within the window of the rolled back
\* recording.
C5_Witness ==
  \E q \in Procs :
    /\ pc[q] = "l78" /\ address[q] = Watched
    /\ rolledWin > 0 /\ rolledIP = clintIP[q] /\ ~rerec

\* C6: line 95 removes the address key and nothing else, line 96 removes
\* the plain client key and nothing else, and the handler's return
\* changes no entry: every slot entry keeps its expiry through the
\* rollback.
C6_RollbackFrame ==
  [][\A p \in Procs :
       /\ (pc[p] = "l93" /\ pc'[p] = "l95") => cache' = cache
       /\ (pc[p] = "l95" /\ pc'[p] = "l96")
            => /\ cache' = [cache EXCEPT ![AddrKey(address[p])] = NotFound]
               /\ \A k \in Keys \ {AddrKey(address[p])} : since'[k] = since[k]
       /\ (pc[p] = "l96" /\ pc'[p] = "idle")
            => /\ cache' = [cache EXCEPT ![IPKey(clintIP[p])] = NotFound]
               /\ \A k \in Keys \ {IPKey(clintIP[p])} : since'[k] = since[k]]_vars

\* C6: a rollback has run (lines 95 and 96) and a slot of the client of
\* the rolled back request is still live.
C6_Witness ==
  /\ rolledIP \in IPs
  /\ ~Found(cache, IPKey(rolledIP))
  /\ ~Found(cache, AddrKey(Watched))
  /\ \E j \in Slots : Found(cache, SlotKey(rolledIP, j))

\* C7: with a TTL of zero or less the cache stays empty, the mutex stays
\* free, and a request is at the handler call or returning: no goroutine
\* is ever at the admission lines or at the rollback.
C7_DisabledBypass ==
  ttl <= 0 =>
    /\ \A k \in Keys : cache[k] = NotFound /\ since[k] = 0
    /\ mutex = NoProc
    /\ \A p \in Procs :
         /\ pc[p] \in {"idle", "l45", "l49", "l50"}
         /\ pc[p] = "l50" => w[p] \in HandlerStatuses

\* C7: limiting is disabled and a handler has reported a failure.
C7_Witness ==
  /\ ttl <= 0
  /\ \E p \in Procs : pc[p] = "l50" /\ w[p] = StatusInternalServerError

\* C8: under the fair scheduler, a request waiting for the mutex (line
\* 54) reaches a decision: denied (line 57 or 73) or admitted (line 78).
C8_DecisionReached ==
  \A p \in Procs : (pc[p] = "l54") ~> (pc[p] \in {"l57", "l73", "l78"})

\* C8: a request reaches its decision while the handler of another is
\* running.
C8_Witness ==
  \E p, q \in Procs :
    p # q /\ pc[p] = "l93" /\ pc[q] \in {"l57", "l73", "l78"}

\* C9: a request whose readAddress fails is answered with the error's
\* status, 500 for an error of another type, and then returns; neither
\* step changes the cache or the mutex.
C9_MalformedShortCircuit ==
  [][\A p \in Procs :
       /\ (pc[p] # "l45" /\ pc'[p] = "l45")
            => /\ pc[p] = "idle"
               /\ w'[p] = IF err'[p].type = "malformedRequest"
                            THEN err'[p].status ELSE StatusInternalServerError
               /\ cache' = cache /\ mutex' = mutex /\ mutex # p
       /\ Leaves(p, "l45")
            => pc'[p] = "idle" /\ cache' = cache /\ mutex' = mutex]_vars

\* C9: an error of an unrecognised type is answered with 500 while the
\* cache holds entries.
C9_Witness ==
  \E p \in Procs :
    /\ pc[p] = "l45" /\ err[p].type = "other"
    /\ w[p] = StatusInternalServerError
    /\ \E k \in Keys : Found(cache, k)

\* C10: a key set less than ttl seconds ago is found, with a remaining
\* TTL of ttl minus the seconds since it was set, whatever lookups there
\* were; a key set ttl seconds ago or more, or removed, is not found.
C10_NoExtensionOnLookup ==
  ttl > 0 =>
    \A k \in Keys :
      IF since[k] < ttl
        THEN /\ Found(cache, k)
             /\ GetWithTTL(cache, k) = ttl - since[k]
             /\ checklimitByKey(cache, k) > 0
             /\ checklimitByKey(cache, k) <= ttl
        ELSE ~Found(cache, k) /\ checklimitByKey(cache, k) = 0

\* C10: a lookup reported a remaining TTL below the full TTL.
C10_Witness ==
  \E p \in Procs : pc[p] = "l57" /\ wait[p] > 0 /\ wait[p] < ttl

\* The position of the k-th comma of s, the 0-th being before s and the
\* one past the last being after s.
CommaAt(s, k) ==
  LET commas == {i \in 1..Len(s) : s[i] = Comma}
  IN  IF k = 0 THEN 0
      ELSE IF k > Cardinality(commas) THEN Len(s) + 1
      ELSE CHOOSE i \in commas : Cardinality({j \in commas : j < i}) = k - 1
\* The k-th comma-separated segment of s, counted from 0.
Segment(s, k) == SubSeq(s, CommaAt(s, k) + 1, CommaAt(s, k + 1) - 1)
\* x is seg without the spaces it starts and ends with.
IsTrimOf(x, seg) ==
  /\ x = <<>> \/ (x[1] # Space /\ x[Len(x)] # Space)
  /\ \E a, b \in 0..Len(seg) :
       /\ a + b <= Len(seg)
       /\ x = SubSeq(seg, a + 1, Len(seg) - b)
       /\ \A i \in 1..a : seg[i] = Space
       /\ \A i \in (Len(seg) - b + 1)..Len(seg) : seg[i] = Space

\* C11: with h > 0 proxies and a non-empty header of n segments the
\* resolver returns segment max(n - h, 0) without its surrounding spaces
\* and never indexes out of range; otherwise it returns the host of
\* RemoteAddr when that is host:port, and RemoteAddr itself when not.
C11_ResolvedSegment ==
  \A p \in Procs :
    pc[p] = "l54" =>
      IF proxyCount > 0 /\ r.xff # <<>>
        THEN LET n == Cardinality({i \in 1..Len(r.xff) : r.xff[i] = Comma}) + 1
                 k == IF n - proxyCount > 0 THEN n - proxyCount ELSE 0
             IN  /\ clintIP[p] # Panic
                 /\ k \in 0..(n - 1)
                 /\ IsTrimOf(clintIP[p], Segment(r.xff, k))
        ELSE LET colons == {i \in 1..Len(r.remoteAddr) : r.remoteAddr[i] = Colon}
             IN  IF Cardinality(colons) = 1
                   THEN \E i \in colons :
                          clintIP[p] = SubSeq(r.remoteAddr, 1, i - 1)
                   ELSE clintIP[p] = r.remoteAddr

\* C11: three proxies and a header of two segments: the index is
\* clamped to 0 and the first segment is returned without its space.
C11_Witness ==
  /\ proxyCount = 3
  /\ r.xff = <<Space, "1", Comma, "1">>
  /\ \E p \in Procs : pc[p] = "l54" /\ clintIP[p] = <<"1">>

\* C12 (as claimed): the address entry line 95 removes is the one its
\* own request recorded at line 78 (still in its window, not removed
\* since), and the plain client entry line 96 removes expires when the
\* entry its own request recorded at line 79 does.
C12_RollbackRemovesOwnEntries ==
  [][\A p \in Procs :
       /\ (pc[p] = "l95" /\ pc'[p] = "l96"
             /\ Found(cache, AddrKey(address[p])))
            => (rec[p] > 0 /\ ~gone[p])
       /\ (pc[p] = "l96" /\ pc'[p] = "idle"
             /\ Found(cache, IPKey(clintIP[p])))
            => cache[IPKey(clintIP[p])] = rec[p]]_vars

\* C13: an admission sets the address key to the TTL (line 78), then the
\* plain client key to the TTL (line 79), then the lowest slot key that
\* has no live entry to the TTL, or nothing when all four are live
\* (lines 81-89); each step changes no other entry.
C13_AdmissionRecords ==
  [][\A p \in Procs :
       /\ (pc[p] = "l78" /\ pc'[p] # "l78")
            => /\ pc'[p] = "l79"
               /\ cache' = [cache EXCEPT ![AddrKey(address[p])] = ttl]
       /\ (pc[p] = "l79" /\ pc'[p] # "l79")
            => /\ pc'[p] = "l81"
               /\ cache' = [cache EXCEPT ![IPKey(clintIP[p])] = ttl]
       /\ (pc[p] = "l81" /\ pc'[p] # "l81")
            => LET free == {j \in Slots : ~Found(cache, SlotKey(clintIP[p], j))}
               IN  /\ pc'[p] = "l93"
                   /\ IF free = {} THEN cache' = cache
                      ELSE \E j \in free :
                             /\ \A h \in free : j <= h
                             /\ cache' = [cache EXCEPT ![SlotKey(clintIP[p], j)] = ttl]]_vars

\* C13: an admission has recorded slot 1, slot 0 being live and slots 2
\* and 3 free.
C13_Witness ==
  \E p \in Procs :
    /\ pc[p] = "l93" /\ rec[p] = ttl
    /\ Found(cache, SlotKey(clintIP[p], 0))
    /\ cache[SlotKey(clintIP[p], 1)] = ttl
    /\ ~Found(cache, SlotKey(clintIP[p], 2))
    /\ ~Found(cache, SlotKey(clintIP[p], 3))
    /\ cache[AddrKey(address[p])] = ttl
    /\ cache[IPKey(clintIP[p])] = ttl

\* C14 (as claimed): the handler's return leads to the rollback only
\* with a status outside 200..299, and with a status inside it the
\* entries are left as they are.
C14_RollbackIffNotSuccess ==
  [][\A p \in Procs :
       /\ (pc[p] = "l93" /\ pc'[p] = "l95") => w'[p] \notin 200..299
       /\ (pc[p] = "l93" /\ pc'[p] = "idle") => cache' = cache]_vars

\* C15 (as claimed): no goroutine that has answered a denial (lines 115
\* and 71 done), is in the handler, is in the rollback or has returned
\* holds the mutex.
C15_NoLockOnceDenied ==
  \A p \in Procs :
    pc[p] \in {"idle", "l45", "l50", "l57", "l73", "l93", "l95", "l96"}
      => mutex # p

\* C15: a goroutine holds the mutex only between line 54 and its Unlock
\* at line 57, 73 or 91, so not in the handler, in the rollback or once
\* ServeHTTP has returned, while the 429 of a denial is written with the
\* mutex still held (lines 115 and 71 come before lines 57 and 73);
\* every Unlock is called by the holder and frees the mutex, and the
\* holder changes in no other way.
C15_LockReleasedBeforeHandlerAndReturn ==
  [][\A p \in Procs :
       /\ pc[p] \notin LockedPcs => mutex # p
       /\ pc'[p] \notin LockedPcs => mutex' # p
       /\ (pc[p] \in {"l57", "l73", "l81"} /\ pc'[p] # pc[p])
            => (mutex = p /\ mutex' = NoProc)
       /\ (mutex = p /\ mutex' # p)
            => (mutex' = NoProc /\ pc[p] \in {"l57", "l73", "l81"})
       /\ (mutex # p /\ mutex' = p)
            => (mutex = NoProc /\ pc[p] = "l54")]_vars

\* C15: one goroutine is in the handler, having released the mutex,
\* while another has answered a denial and still holds it.
C15_Witness ==
  \E p, q \in Procs :
    /\ pc[p] = "l93" /\ mutex = q
    /\ pc[q] \in {"l57", "l73"} /\ w[q] = StatusTooManyRequests

\* C16: the wait answered with a denial on the client path is the least
\* remaining TTL of the client's four slots; a second shortens every live
\* slot's remaining TTL by one, so that after the wait a slot has
\* expired unless an admission re-recorded it; and a request with an
\* unrecorded address whose client has a slot without a live entry is
\* admitted.
C16_WaitIsLeastSlotTTL ==
  [][/\ \A q \in Procs :
          /\ (Leaves(q, "l62") /\ pc'[q] = "l73")
               => /\ \A j \in Slots : wait'[q] <= cache[SlotKey(clintIP[q], j)]
                  /\ \E j \in Slots : wait'[q] = cache[SlotKey(clintIP[q], j)]
                  /\ wait'[q] > 0
          /\ (Leaves(q, "l61") /\ ~AllSlotsLive(cache, clintIP[q]))
               => pc'[q] \in {"l62", "l78"}
          /\ (Leaves(q, "l62") /\ ~AllSlotsLive(cache, clintIP[q]))
               => pc'[q] = "l78"
     /\ (\A q \in Procs : pc'[q] = pc[q])
          => \A i \in IPs : \A j \in Slots :
               Found(cache, SlotKey(i, j))
                 => cache'[SlotKey(i, j)] = cache[SlotKey(i, j)] - 1]_vars

\* C16: a denial on the client path answers a wait of one second while
\* another slot of the client has two seconds left.
C16_Witness ==
  \E p \in Procs :
    /\ pc[p] = "l73" /\ wait[p] = 1
    /\ \E j \in Slots : cache[SlotKey(clintIP[p], j)] > 1

\* C18: from its lookups to its return a denied request leaves every
\* entry of the cache as it is, and it returns from line 57 or 73
\* without reaching the handler (line 93) or the rollback (lines 95-96).
C18_DenialFrame ==
  [][\A p \in Procs :
       /\ (Leaves(p, "l54") /\ pc'[p] = "l57") => cache' = cache
       /\ (Leaves(p, "l62") /\ pc'[p] = "l73") => cache' = cache
       /\ (pc'[p] = "l73" /\ pc[p] # "l73") => pc[p] = "l62"
       /\ (pc[p] = "l61" /\ pc'[p] = "l62") => cache' = cache
       /\ (Leaves(p, "l57") \/ Leaves(p, "l73"))
            => (pc'[p] = "idle" /\ cache' = cache /\ since' = since)]_vars

\* C18: a request denied on the client path is about to return, the
\* client's entries and another address entry being live.
C18_Witness ==
  \E p \in Procs :
    /\ pc[p] = "l73" /\ w[p] = StatusTooManyRequests
    /\ Found(cache, IPKey(clintIP[p]))
    /\ ~Found(cache, AddrKey(address[p]))
    /\ \E a \in 1..nAddr : Found(cache, AddrKey(a))

\* C19: no step moves the expiry of a live address or slot entry later,
\* lines 78 and 81-89 write only keys without a live entry, and line 79
\* sets the plain client key to the TTL whether it is live or not.
C19_OnlyPlainKeyReRecorded ==
  [][/\ \A a \in 1..nAddr :
          Found(cache, AddrKey(a)) => cache'[AddrKey(a)] <= cache[AddrKey(a)]
     /\ \A i \in 1..nIP : \A j \in Slots :
          Found(cache, SlotKey(i, j))
            => cache'[SlotKey(i, j)] <= cache[SlotKey(i, j)]
     /\ \A p \in Procs :
          /\ Leaves(p, "l78") => ~Found(cache, AddrKey(address[p]))
          /\ Leaves(p, "l81")
               => \A j \in Slots :
                    cache'[SlotKey(clintIP[p], j)] # cache[SlotKey(clintIP[p], j)]
                      => ~Found(cache, SlotKey(clintIP[p], j))
          /\ Leaves(p, "l79") => cache'[IPKey(clintIP[p])] = ttl]_vars

\* C19: line 79 has re-recorded the plain key of a client whose earlier
\* admission, one second old, is still in its handler.
C19_Witness ==
  \E p, q \in Procs :
    /\ p # q /\ clintIP[p] = clintIP[q]
    /\ pc[p] = "l81" /\ pc[q] = "l93"
    /\ rec[q] > 0 /\ rec[q] < ttl
    /\ cache[IPKey(clintIP[p])] = ttl
    /\ \E j \in Slots : cache[SlotKey(clintIP[p], j)] = rec[q]

\* C17 (as claimed): the audited client never has more than four
\* requests whose handlers reported success and whose admissions all
\* lie within the last TTL.
C17_AtMostFourSuccesses == Successes <= NumSlots

====
